---- MODULE Spec2Model ----
(***************************************************************************)
(* Model of the dependency resolution / verification / environment         *)
(* building core of sconsProject (src/project/__init__.py).                *)
(*                                                                         *)
(* A library descriptor is an index into the table "libs".  External       *)
(* descriptors (the autoconf catalogue) exist from the start; internal     *)
(* descriptors are created by StaticLibrary.  The outcome of a library's   *)
(* compile/link check is a fact about the machine ("avail"), the           *)
(* with_<name> option is "withOpt", both fixed for the whole run.          *)
(***************************************************************************)
EXTENDS Integers, Sequences, FiniteSets, TLC

\* ---------------------------------------------------------------- bounds
MaxBuilds   == 2      \* operations of the SConscript that build an environment
MaxReq      == 2      \* length of a 'libraries' argument
MaxInternal == 2      \* internal libraries declared in one run
MaxTestReq  == 1      \* length of the 'libraries' and 'execLibraries' of a UnitTest
NLibsR      == 4      \* libraries of a graph given to the resolver alone
MaxDepsR    == 2      \* length of a dependencies list in such a graph
NLibsU      == 4      \* descriptors of a list given to uniqLibs alone
MaxLenU     == 3      \* length of such a list
NLibsW      == 3      \* libraries of a graph that may have a cycle
MaxDepsW    == 2      \* length of a dependencies list in such a graph
RecursionLimit == 6   \* call depth at which the interpreter stops a recursion
MaxScripts  == 2      \* scripts in the sources of one ScriptTests call
MaxScriptCalls == 1   \* ScriptTests calls in a run

\* ------------------------------------------------- the autoconf catalogue
\* External checkers: 1 has no dependency, 2 depends on 1 (as
\* boost_unit_test_framework depends on boost), 3 shares its name with 1
\* but has another id (a variant of the same library).
\* The fourth is libs.sconsProject, the library of commonLibs.
ExtName == <<1, 2, 1, 3>>
ExtId   == <<0, 0, 1, 0>>
ExtDeps == << <<>>, <<1>>, <<>>, <<>> >>
ExtLibs == DOMAIN ExtName
NExt    == Len(ExtName)
sconsProject == NExt
MaxLibs == NExt + MaxInternal

\* Every declaration builds a target of its own: the k-th one is 100 + k.
TargetNames == 101..(100 + MaxBuilds)

NoEnv == [present |-> FALSE]

NoWalk == [result |-> "none"]

\* The dicts behind `externEnvFlags={}` in the signatures of StaticLibrary
\* (line 1086) and SharedLibrary (line 1211): one object per function,
\* created when the class is defined.  A dict is modelled by the list of
\* flags under its one key; <<>> is the empty dict.
NoFlagsYet == [StaticLibrary |-> <<>>, SharedLibrary |-> <<>>]

VARIABLES
  avail,        \* avail[l]: the compile/link check of external library l succeeds
  withOpt,      \* withOpt[l]: option with_<name> of external library l
  check_libs,   \* option check_libs
  clean,        \* scons -c / -h: nothing is configured
  libs,         \* table of library descriptors (sequence of records)
  allLibsChecked,             \* SConsProject.allLibsChecked
  libs_error,                 \* SConsProject.libs_error
  removedFromDefaultTargets,  \* SConsProject.removedFromDefaultTargets
  allAlias,                   \* targets of the alias 'all'
  allTargets,                 \* SConsProject.allTargets
  userEnv,                    \* an environment the SConscript keeps to pass as env=
  ignore_configure_errors,    \* option ignore_configure_errors
  phase,                      \* "run", "ended", "exit1", "raised"
  nbuilds,                    \* number of operations done (bounded by MaxBuilds)
  probes,                     \* probes[l]: times the scratch check of l ran
  verify,                     \* verify[l]: first and later results of checkLibrary(l)
  inClosure,                  \* inClosure[l]: resolved lists that contained l so far
  declared,                   \* declared[t]: the environment target t was declared with
  last,                       \* what the last operation did
  baseEnv,                    \* self.env, the environment every other one is cloned from
  check_env,                  \* the scratch environment of the last verification
  mode,                       \* env['mode'], the build mode option
  defaultExternEnvFlags,      \* the default-argument dicts of externEnvFlags
  nscripts,                   \* number of ScriptTests calls so far
  walk                        \* the call stack and result of a running findLibsDependencies

vars == <<avail, withOpt, check_libs, clean, libs, allLibsChecked, libs_error,
          removedFromDefaultTargets, allAlias, allTargets, userEnv,
          ignore_configure_errors, phase, nbuilds, probes, verify,
          inClosure, declared, last, baseEnv, check_env, walk,
          mode, defaultExternEnvFlags, nscripts>>

\* ------------------------------------------------------------- helpers
Range(s) == {s[i] : i \in DOMAIN s}

RECURSIVE SeqsUpTo(_, _)
SeqsUpTo(S, n) ==
  IF n = 0 THEN {<<>>}
  ELSE LET shorter == SeqsUpTo(S, n - 1)
       IN  shorter \cup {Append(s, x) : s \in shorter, x \in S}

\* The sequences of length up to n over S without a repeated element.
RECURSIVE NoRepeatSeqs(_, _)
NoRepeatSeqs(S, n) ==
  IF n = 0 THEN {<<>>}
  ELSE LET shorter == NoRepeatSeqs(S, n - 1)
       IN  shorter \cup
           UNION {{Append(q, x) : x \in S \ Range(q)} : q \in shorter}

\* An append that does not look whether the element is there already.
AppendAlways(s, x) == Append(s, x)

AppendIfAbsent(s, x) == IF x \in Range(s) THEN s ELSE Append(s, x)

RECURSIVE AppendAllIfAbsent(_, _, _)
AppendAllIfAbsent(s, xs, i) ==
  IF i > Len(xs) THEN s
  ELSE AppendAllIfAbsent(AppendIfAbsent(s, xs[i]), xs, i + 1)

\* ------------------------------------------------- library descriptors
ExternalLib(l) == [name |-> ExtName[l], id |-> ExtId[l], dependencies |-> ExtDeps[l],
                   internal |-> FALSE, sconsNode |-> FALSE, checkDone |-> FALSE]

\* InternalLibChecker.__init__: envFlags is kept by reference (line 15 of
\* _internal.py), so the descriptor holds the name of a dict object: one of
\* the default-argument dicts, or a dict of its own that the caller passed.
InternalLibChecker(target, deps, node, envFlags, addSources) ==
  [name |-> target, id |-> 0, dependencies |-> deps,
   internal |-> TRUE, sconsNode |-> node, checkDone |-> FALSE,
   envFlags |-> envFlags, addSources |-> addSources]

\* InternalLibChecker.postconfigure (lines 45-54 of _internal.py): what the
\* library adds to ADDSRC when postconfigure is called with this level.
InternalLibChecker_postconfigure(d, level) ==
  IF level = 0 /\ d.addSources THEN {d.name} ELSE {}

\* BaseLibChecker, the class every checker derives from: a library is
\* enabled by its with_<name> option, declaring its options and adding its
\* settings to an environment succeed, and its check finds nothing to test.
BaseLibChecker_enabled(l) == withOpt[l]

BaseLibChecker_initOptions(l) == TRUE

BaseLibChecker_configure(l) == TRUE

BaseLibChecker_check(l) == TRUE

\* InternalLibChecker overrides enabled, initOptions and configure; an
\* external checker overrides check with a compile/link test.
enabled(L, l) == IF L[l].internal THEN TRUE ELSE BaseLibChecker_enabled(l)

initOptions(L, l) == IF L[l].internal THEN TRUE ELSE BaseLibChecker_initOptions(l)

configure(L, l) == IF L[l].internal THEN TRUE ELSE BaseLibChecker_configure(l)

check(L, l) == IF L[l].internal THEN BaseLibChecker_check(l) ELSE avail[l]

\* ------------------------------------------------------- resolution
RECURSIVE internFindLibDependencies(_, _, _)
RECURSIVE walkDependencies(_, _, _, _)

walkDependencies(L, ds, i, level) ==
  IF i > Len(ds) THEN <<>>
  ELSE internFindLibDependencies(L, ds[i], level) \o walkDependencies(L, ds, i + 1, level)

\* A resolver that emits a library before its dependencies.
internFindLibDependencies_PreOrder(L, lib, level) ==
  << <<lib, level>> >> \o walkDependencies(L, L[lib].dependencies, 1, level + 1)

internFindLibDependencies(L, lib, level) ==
  walkDependencies(L, L[lib].dependencies, 1, level + 1) \o << <<lib, level>> >>

\* A resolver that stops at the direct dependencies.
findLibsDependencies_DirectOnly(L, lib) ==
  [i \in DOMAIN L[lib].dependencies |-> <<L[lib].dependencies[i], 0>>]

findLibsDependencies(L, lib) == walkDependencies(L, L[lib].dependencies, 1, 0)

\* A uniqLibs that tells libraries apart by their name alone.
RECURSIVE uniqLoop_ByName(_, _, _, _, _)
uniqLoop_ByName(L, allLibs, i, names, out) ==
  IF i > Len(allLibs) THEN out
  ELSE IF L[allLibs[i][1]].name \in names
       THEN uniqLoop_ByName(L, allLibs, i + 1, names, out)
       ELSE uniqLoop_ByName(L, allLibs, i + 1, names \cup {L[allLibs[i][1]].name},
                            Append(out, allLibs[i]))

\* A uniqLibs that returns the kept entries in reverse order.
RECURSIVE uniqLoop_Reversed(_, _, _, _, _)
uniqLoop_Reversed(L, allLibs, i, names, out) ==
  IF i > Len(allLibs) THEN out
  ELSE IF <<L[allLibs[i][1]].name, L[allLibs[i][1]].id>> \in names
       THEN uniqLoop_Reversed(L, allLibs, i + 1, names, out)
       ELSE uniqLoop_Reversed(L, allLibs, i + 1,
                              names \cup {<<L[allLibs[i][1]].name, L[allLibs[i][1]].id>>},
                              <<allLibs[i]>> \o out)

RECURSIVE uniqLoop(_, _, _, _, _)
uniqLoop(L, allLibs, i, names, out) ==
  IF i > Len(allLibs) THEN out
  ELSE LET s   == allLibs[i][1]
           key == <<L[s].name, L[s].id>>
       IN  IF key \in names
           THEN uniqLoop(L, allLibs, i + 1, names, out)
           ELSE uniqLoop(L, allLibs, i + 1, names \cup {key}, Append(out, allLibs[i]))

uniqLibs(L, allLibs) == uniqLoop(L, allLibs, 1, {}, <<>>)

\* A collection that puts a requested library before its dependencies.
RECURSIVE collectLibs_RequestedFirst(_, _, _)
collectLibs_RequestedFirst(L, requested, i) ==
  IF i > Len(requested) THEN <<>>
  ELSE << <<requested[i], 0>> >> \o findLibsDependencies(L, requested[i])
       \o collectLibs_RequestedFirst(L, requested, i + 1)

RECURSIVE collectLibs(_, _, _)
collectLibs(L, requested, i) ==
  IF i > Len(requested) THEN <<>>
  ELSE findLibsDependencies(L, requested[i]) \o << <<requested[i], 0>> >>
       \o collectLibs(L, requested, i + 1)

resolvedLibs(L, requested) == uniqLibs(L, collectLibs(L, requested, 1))

\* ------------------------------------------------------- environments
\* self.env as begin() leaves it: the base environment carries no library
\* setting.  obj tells which environment object a record stands for: the
\* base one, the one the SConscript keeps, or one local to a call; what
\* appendLibsToEnv does to its argument, it does to that object.
NewEnv == [present |-> TRUE, hasMissing |-> FALSE, missing |-> <<>>,
           libraries |-> <<>>, inited |-> {}, configured |-> {},
           checked |-> {}, postconfigured |-> {}, ADDSRC |-> {}, obj |-> "base"]

\* A Clone that hands back the environment it was called on.
Clone_Alias(e) == e

\* env.Clone(): a new object with a copy of the settings.
Clone(e) == [e EXCEPT !.obj = "local"]

\* The mutable process-wide state threaded through the calls below.
ProjectState == [libs |-> libs, allLibsChecked |-> allLibsChecked,
                 libs_error |-> libs_error, probes |-> probes, verify |-> verify,
                 env |-> baseEnv, check_env |-> check_env]

needConfigure == ~clean

needCheck == check_libs

\* ------------------------------------------------------- checkLibrary
Verdict(r) == IF r THEN "pass" ELSE "fail"

\* Observation of one checkLibrary call: its result, in call order.
Returned(st, lib, r) ==
  [st EXCEPT !.verify[lib] =
     IF @.first = "none" THEN [@ EXCEPT !.first = Verdict(r)]
     ELSE [@ EXCEPT !.later = @ \cup {Verdict(r)}]]

LibsOf(allLibs) == {allLibs[i][1] : i \in DOMAIN allLibs}

\* The libraries a verification of lib touches in its environment: the
\* resolved dependencies of lib (line 904) and lib itself.
scratchLibs(L, lib) == LibsOf(uniqLibs(L, findLibsDependencies(L, lib))) \cup {lib}

\* Lines 911-935 on the environment e: initEnv, configure and check of the
\* dependencies and of lib.
scratchApply(e, touched) ==
  [e EXCEPT !.inited = @ \cup touched, !.configured = @ \cup touched,
            !.checked = @ \cup touched]

\* A verification that works on self.env itself instead of a clone.
scratchEnv_InPlace(st, lib) ==
  [st EXCEPT !.env = scratchApply(st.env, scratchLibs(st.libs, lib)),
             !.check_env = scratchApply(st.env, scratchLibs(st.libs, lib))]

\* Line 911: check_env = self.env.Clone(), then lines 913-935 on it.
scratchEnv(st, lib) ==
  [st EXCEPT !.check_env = scratchApply(Clone(st.env), scratchLibs(st.libs, lib))]

\* Lines 904-939: the check of lib in a scratch clone of self.env.  The
\* dependencies are initialised, configured and checked in the clone too;
\* what they return is dropped and the clone is discarded.
scratchCheck(st, lib) ==
  LET st1    == IF ~initOptions(st.libs, lib)
                THEN [st EXCEPT !.libs_error = AppendIfAbsent(@, lib)]
                ELSE st
      status == configure(st.libs, lib) /\ check(st.libs, lib)
      st2    == [scratchEnv(st1, lib) EXCEPT
                            !.libs[lib].checkDone = TRUE,
                            !.allLibsChecked = Append(@, st.libs[lib].name),
                            !.probes[lib] = @ + 1]
  IN  [st |-> st2, r |-> status]

\* checkLibrary without the checkDone flag and the allLibsChecked memo.
checkLibraryBody_NoMemo(st, lib) ==
  IF st.libs[lib].sconsNode THEN [st |-> st, r |-> TRUE]
  ELSE IF ~needCheck
       THEN [st |-> [st EXCEPT !.libs[lib].checkDone = TRUE,
                               !.allLibsChecked = Append(@, st.libs[lib].name)],
             r |-> TRUE]
  ELSE scratchCheck(st, lib)

\* checkLibrary without the early return for an internal library.
checkLibraryBody_ProbeInternal(st, lib) ==
  IF st.libs[lib].checkDone THEN [st |-> st, r |-> TRUE]
  ELSE IF st.libs[lib].name \in Range(st.allLibsChecked)
       THEN [st |-> [st EXCEPT !.libs[lib].checkDone = TRUE], r |-> TRUE]
  ELSE IF ~needCheck
       THEN [st |-> [st EXCEPT !.libs[lib].checkDone = TRUE,
                               !.allLibsChecked = Append(@, st.libs[lib].name)],
             r |-> TRUE]
  ELSE scratchCheck(st, lib)

checkLibraryBody(st, lib) ==
  IF st.libs[lib].checkDone THEN [st |-> st, r |-> TRUE]
  ELSE IF st.libs[lib].sconsNode THEN [st |-> st, r |-> TRUE]
  ELSE IF st.libs[lib].name \in Range(st.allLibsChecked)
       THEN [st |-> [st EXCEPT !.libs[lib].checkDone = TRUE], r |-> TRUE]
  ELSE IF ~needCheck
       THEN [st |-> [st EXCEPT !.libs[lib].checkDone = TRUE,
                               !.allLibsChecked = Append(@, st.libs[lib].name)],
             r |-> TRUE]
  ELSE scratchCheck(st, lib)

Observed(c, lib) == [st |-> Returned(c.st, lib, c.r), r |-> c.r]

checkLibrary(st, lib) == Observed(checkLibraryBody(st, lib), lib)

\* ---------------------------------------------------- appendLibsToEnv
\* Lines 830-833.
RECURSIVE initOptionsLoop(_, _, _)
initOptionsLoop(st, allLibs, i) ==
  IF i > Len(allLibs) THEN st
  ELSE initOptionsLoop(IF ~initOptions(st.libs, allLibs[i][1])
                       THEN [st EXCEPT !.libs_error = AppendIfAbsent(@, allLibs[i][1])]
                       ELSE st, allLibs, i + 1)

\* A configure step that trusts checkLibrary alone and ignores what
\* configure and check report on the target's own environment.
configureStep_TrustCheckLibrary(acc, lib, cl) ==
  [st  |-> cl.st,
   env |-> [acc.env EXCEPT !.configured = @ \cup {lib},
                           !.checked    = @ \cup {lib}],
   err |-> IF cl.r THEN acc.err ELSE Append(acc.err, lib)]

\* Lines 846-858 for one enabled library; cl is what checkLibrary returned.
\* acc = [st, env, err]; err is the local libs_error.
configureStep(acc, lib, cl) ==
  LET cfg    == configure(cl.st.libs, lib)
      chk    == IF cfg THEN check(cl.st.libs, lib) ELSE TRUE
      status == cl.r /\ cfg /\ chk
  IN  [st  |-> cl.st,
       env |-> [acc.env EXCEPT !.configured = @ \cup {lib},
                               !.checked    = IF cfg THEN @ \cup {lib} ELSE @],
       err |-> IF status THEN acc.err ELSE Append(acc.err, lib)]

RECURSIVE configureLoop(_, _, _)

\* A configure pass that gives up at the first library that fails.
RECURSIVE configureLoop_StopAtFailure(_, _, _)
configureLoop_StopAtFailure(acc, allLibs, i) ==
  IF i > Len(allLibs) \/ acc.err # <<>> THEN acc
  ELSE IF ~enabled(acc.st.libs, allLibs[i][1])
       THEN configureLoop_StopAtFailure(acc, allLibs, i + 1)
       ELSE configureLoop_StopAtFailure(configureStep(acc, allLibs[i][1],
                                                      checkLibrary(acc.st, allLibs[i][1])),
                                        allLibs, i + 1)

\* Lines 842-858.
configureLoop(acc, allLibs, i) ==
  IF i > Len(allLibs) THEN acc
  ELSE IF ~enabled(acc.st.libs, allLibs[i][1])
       THEN configureLoop(acc, allLibs, i + 1)
       ELSE configureLoop(configureStep(acc, allLibs[i][1],
                                        checkLibrary(acc.st, allLibs[i][1])),
                          allLibs, i + 1)

LibNames(L, ls) == [i \in DOMAIN ls |-> L[ls[i]].name]

\* Lines 840-858: the configure pass, skipped by a clean or help run.
configurePass(st, env, allLibs) ==
  IF needConfigure
  THEN configureLoop([st |-> st, env |-> env, err |-> <<>>], allLibs, 1)
  ELSE [st |-> st, env |-> env, err |-> <<>>]

\* Lines 872-873: lib.postconfigure(self, env, level) for the whole list;
\* what the internal libraries of the list add to ADDSRC.
postconfigureAll(L, allLibs) ==
  UNION {InternalLibChecker_postconfigure(L[allLibs[k][1]], allLibs[k][2]) :
           k \in {j \in DOMAIN allLibs : L[allLibs[j][1]].internal}}

\* An environment builder that never fills SconsProject_missingDependencies.
recordMissing_NoNames(conf, allLibs) ==
  [st      |-> [conf.st EXCEPT !.libs_error = AppendAllIfAbsent(@, conf.err, 1)],
   env     |-> [conf.env EXCEPT
                  !.hasMissing = IF needConfigure THEN TRUE ELSE @,
                  !.postconfigured = @ \cup LibsOf(allLibs),
                  !.ADDSRC = @ \cup postconfigureAll(conf.st.libs, allLibs)],
   allLibs |-> allLibs,
   err     |-> conf.err]

\* An environment builder that keeps its failures to itself: the names go
\* into the missing list, the libraries do not go into self.libs_error.
recordMissing_NotAggregated(conf, allLibs) ==
  [st      |-> conf.st,
   env     |-> [conf.env EXCEPT
                  !.hasMissing = IF needConfigure THEN TRUE ELSE @,
                  !.missing = IF needConfigure
                              THEN @ \o LibNames(conf.st.libs, conf.err) ELSE @,
                  !.postconfigured = @ \cup LibsOf(allLibs),
                  !.ADDSRC = @ \cup postconfigureAll(conf.st.libs, allLibs)],
   allLibs |-> allLibs,
   err     |-> conf.err]

\* Lines 863-877.  Returns [st, env, allLibs, err]: the new process-wide
\* state, the environment handed back, the resolved list and the local
\* libs_error.
recordMissing(conf, allLibs) ==
  [st      |-> [conf.st EXCEPT !.libs_error = AppendAllIfAbsent(@, conf.err, 1)],
   env     |-> [conf.env EXCEPT
                  !.hasMissing = IF needConfigure THEN TRUE ELSE @,
                  !.missing = IF needConfigure
                              THEN @ \o LibNames(conf.st.libs, conf.err) ELSE @,
                  !.postconfigured = @ \cup LibsOf(allLibs),
                  !.ADDSRC = @ \cup postconfigureAll(conf.st.libs, allLibs)],
   allLibs |-> allLibs,
   err     |-> conf.err]

\* Lines 830-877, on the resolved list.
applyLibs(st, env, allLibs) ==
  recordMissing(configurePass(initOptionsLoop(st, allLibs, 1),
                              [env EXCEPT !.inited = @ \cup LibsOf(allLibs)],
                              allLibs),
                allLibs)

appendLibsToEnv(st, env, requested) ==
  IF requested = <<>>
  THEN [st |-> st, env |-> env, allLibs |-> <<>>, err |-> <<>>]
  ELSE applyLibs(st, [env EXCEPT !.libraries = @ \o requested],
                 resolvedLibs(st.libs, requested))

commonLibs == <<sconsProject>>

createEnv(st, requested) ==
  appendLibsToEnv(st, Clone(st.env), commonLibs \o requested)

\* ------------------------------------------------------- declareTarget
\* Returns the new removedFromDefaultTargets and alias 'all'.
missingDeps(localEnv) == IF localEnv.hasMissing THEN localEnv.missing ELSE <<>>

\* A declareTarget that adds a degraded target to 'all' as well.
declareTarget_AlwaysAlias(removed, alias, localEnv, target) ==
  [removed |-> IF missingDeps(localEnv) # <<>>
               THEN [removed EXCEPT ![target] = missingDeps(localEnv)]
               ELSE removed,
   alias   |-> alias \cup {target}]

declareTarget(removed, alias, localEnv, target) ==
  IF missingDeps(localEnv) # <<>>
  THEN [removed |-> [removed EXCEPT ![target] = missingDeps(localEnv)], alias |-> alias]
  ELSE [removed |-> removed, alias |-> alias \cup {target}]

\* ------------------------------------------------------------ the run
UserLibs(L) == (1..Len(L)) \ {sconsProject}

LibraryLists(L) == SeqsUpTo(UserLibs(L), MaxReq)

TestLists(L) == SeqsUpTo(UserLibs(L), MaxTestReq)

NewTarget == 101 + nbuilds

Init ==
  /\ clean \in BOOLEAN
  /\ check_libs \in BOOLEAN
  /\ ignore_configure_errors \in BOOLEAN
  /\ avail \in [ExtLibs -> BOOLEAN]
  /\ withOpt \in [ExtLibs -> BOOLEAN]
  /\ avail[sconsProject] /\ withOpt[sconsProject]
  \* values that are never read are fixed: a disabled library is not
  \* checked, a clean run configures nothing
  /\ \A l \in ExtLibs : ~withOpt[l] => avail[l]
  /\ clean => check_libs /\ \A l \in ExtLibs : withOpt[l] /\ avail[l]
  /\ libs = [l \in ExtLibs |-> ExternalLib(l)]
  /\ allLibsChecked = <<>>
  /\ libs_error = <<>>
  /\ removedFromDefaultTargets = [t \in TargetNames |-> <<>>]
  /\ allAlias = {}
  /\ allTargets = [t \in TargetNames |-> [present |-> FALSE]]
  /\ userEnv = NoEnv
  /\ phase = "run"
  /\ nbuilds = 0
  /\ probes = [l \in 1..MaxLibs |-> 0]
  /\ verify = [l \in 1..MaxLibs |-> [first |-> "none", later |-> {}]]
  /\ inClosure = [l \in 1..MaxLibs |-> 0]
  /\ declared = [t \in TargetNames |-> NoEnv]
  /\ last = [op |-> "none"]
  /\ baseEnv = NewEnv
  /\ check_env = NoEnv
  /\ mode = "debug"
  /\ defaultExternEnvFlags = NoFlagsYet
  /\ nscripts = 0
  /\ walk = NoWalk

Commit(st) ==
  /\ libs' = st.libs
  /\ allLibsChecked' = st.allLibsChecked
  /\ libs_error' = st.libs_error
  /\ probes' = st.probes
  /\ verify' = st.verify
  /\ check_env' = st.check_env

\* The environment of a target: a clone of env= with the libraries
\* appended, or createEnv(libraries).
targetEnv(st, useEnv, libraries) ==
  IF useEnv THEN appendLibsToEnv(st, Clone(userEnv), libraries)
  ELSE createEnv(st, libraries)

\* What a call did to the environment e it worked on, it did to self.env or
\* to the environment of the SConscript when e is that object.
StoreEnv(st, e) ==
  /\ baseEnv' = IF e.obj = "base" THEN e ELSE st.env
  /\ userEnv' = IF e.obj = "user" THEN e ELSE userEnv

Declare(localEnv, target) ==
  \E d \in {declareTarget(removedFromDefaultTargets, allAlias, localEnv, target)} :
    /\ removedFromDefaultTargets' = d.removed
    /\ allAlias' = d.alias

Observe(op, target, useEnv, libraries, b, args) ==
  /\ last' = [op |-> op, target |-> target, useEnv |-> useEnv, args |-> args,
              requested |-> IF useEnv THEN libraries ELSE commonLibs \o libraries,
              allLibs |-> b.allLibs, err |-> b.err, env |-> b.env]
  /\ inClosure' = [l \in 1..MaxLibs |->
                     inClosure[l] + IF l \in LibsOf(b.allLibs) THEN 1 ELSE 0]

\* A source check made after the environment was created.
Raise_AfterCreateEnv(op, target) ==
  /\ phase' = "raised"
  /\ last' = [op |-> op, target |-> target, raised |-> TRUE]
  /\ \E b \in {createEnv(ProjectState, <<1>>)} :
       /\ Commit(b.st)
       /\ baseEnv' = b.st.env
  /\ UNCHANGED <<avail, withOpt, check_libs, clean,
                 removedFromDefaultTargets, allAlias, allTargets, userEnv,
                 ignore_configure_errors, walk, nbuilds, inClosure, declared,
                 mode, defaultExternEnvFlags, nscripts>>

\* raise RuntimeError("No source files for the target: ...") at lines 1124,
\* 1249, 1374, 1625 and 1688, before anything else is done.
Raise(op, target) ==
  /\ phase' = "raised"
  /\ last' = [op |-> op, target |-> target, raised |-> TRUE]
  /\ UNCHANGED <<avail, withOpt, check_libs, clean, libs, allLibsChecked, libs_error,
                 removedFromDefaultTargets, allAlias, allTargets, userEnv,
                 ignore_configure_errors, walk, nbuilds, probes, verify, inClosure, declared,
                 baseEnv, check_env, mode, defaultExternEnvFlags, nscripts>>

\* A flag argument of a declaration: left out, or a dict the caller built.
Omitted == [given |-> FALSE]

Given(flags) == [given |-> TRUE, flags |-> flags]

\* appendDict (lines 980-993) for dicts of one list-valued key: the key of
\* src is added to dst, or its values extend the list dst has already.
appendDict(dst, src) ==
  IF src = <<>> THEN dst
  ELSE IF dst # <<>> THEN dst \o src
  ELSE src

\* Lines 1193-1195 and 1315-1317: envFlags = externEnvFlags, then
\* appendDict(envFlags, globalEnvFlags) changes that dict in place.  fn is
\* the function whose default dict externEnvFlags is when it is left out.
\* Returns the dict object handed to the descriptor and the default dicts.
exposeFlags(fn, defaults, externEnvFlags, globalEnvFlags) ==
  IF externEnvFlags.given
  THEN [envFlags |-> [obj |-> "arg",
                      flags |-> appendDict(externEnvFlags.flags, globalEnvFlags)],
        defaults |-> defaults]
  ELSE [envFlags |-> [obj |-> fn],
        defaults |-> [defaults EXCEPT ![fn] = appendDict(@, globalEnvFlags)]]

\* The flags a descriptor exposes: the content of the dict it refers to.
envFlagsOf(d, defaults) ==
  IF d.envFlags.obj = "arg" THEN d.envFlags.flags ELSE defaults[d.envFlags.obj]

\* Lines 1069, 1205, 1330: publicName if publicName else target (0 is None).
registryKey(target, publicName) == IF publicName # 0 THEN publicName ELSE target

\* A registration that keeps the record a name has already.
register_KeepExisting(registry, key, node, checker) ==
  IF registry[key].present THEN registry
  ELSE [registry EXCEPT ![key] = [present |-> TRUE, node |-> node, checker |-> checker]]

\* self.allTargets[key] = (node, checker); 0 stands for None.
register(registry, key, node, checker) ==
  [registry EXCEPT ![key] = [present |-> TRUE, node |-> node, checker |-> checker]]

\* The artifact node the next declaration creates.
NewNode == nbuilds + 1

NoArgs == [publicName |-> 0, externEnvFlags |-> Omitted, globalEnvFlags |-> <<>>]

StaticLibrary(target, libraries, useEnv, hasSources, publicName, externEnvFlags, globalEnvFlags) ==
  /\ phase = "run"
  /\ nbuilds < MaxBuilds
  /\ Len(libs) < MaxLibs
  /\ useEnv => userEnv.present
  /\ IF ~hasSources THEN Raise("StaticLibrary", target)
     ELSE
       \E b \in {targetEnv(ProjectState, useEnv, libraries)} :
         \E x \in {exposeFlags("StaticLibrary", defaultExternEnvFlags,
                               externEnvFlags, globalEnvFlags)} :
           /\ Commit([b.st EXCEPT !.libs =
                        Append(@, InternalLibChecker(target, libraries, TRUE,
                                                     x.envFlags, FALSE))])
           /\ defaultExternEnvFlags' = x.defaults
           /\ Declare(b.env, target)
           /\ allTargets' = register(allTargets, registryKey(target, publicName),
                                     NewNode, Len(b.st.libs) + 1)
           /\ declared' = [declared EXCEPT ![target] = b.env]
           /\ nbuilds' = nbuilds + 1
           /\ Observe("StaticLibrary", target, useEnv, libraries, b,
                      [publicName |-> publicName, externEnvFlags |-> externEnvFlags,
                       globalEnvFlags |-> globalEnvFlags])
           /\ StoreEnv(b.st, b.env)
           /\ UNCHANGED <<avail, withOpt, check_libs, clean, mode, nscripts,
                          ignore_configure_errors, walk, phase>>

\* SharedLibrary (lines 1209-1333): as StaticLibrary, but with env= the
\* libraries of the environment are added to the descriptor's dependencies
\* (lines 1254-1259, 1318).
SharedLibrary(target, libraries, useEnv, hasSources, publicName, externEnvFlags, globalEnvFlags) ==
  /\ phase = "run"
  /\ nbuilds < MaxBuilds
  /\ Len(libs) < MaxLibs
  /\ useEnv => userEnv.present
  /\ IF ~hasSources THEN Raise("SharedLibrary", target)
     ELSE
       \E b \in {targetEnv(ProjectState, useEnv, libraries)} :
         \E x \in {exposeFlags("SharedLibrary", defaultExternEnvFlags,
                               externEnvFlags, globalEnvFlags)} :
           /\ Commit([b.st EXCEPT !.libs =
                        Append(@, InternalLibChecker(
                                    target,
                                    IF useEnv THEN libraries \o b.env.libraries
                                    ELSE libraries,
                                    TRUE, x.envFlags, FALSE))])
           /\ defaultExternEnvFlags' = x.defaults
           /\ Declare(b.env, target)
           /\ allTargets' = register(allTargets, registryKey(target, publicName),
                                     NewNode, Len(b.st.libs) + 1)
           /\ declared' = [declared EXCEPT ![target] = b.env]
           /\ nbuilds' = nbuilds + 1
           /\ Observe("SharedLibrary", target, useEnv, libraries, b,
                      [publicName |-> publicName, externEnvFlags |-> externEnvFlags,
                       globalEnvFlags |-> globalEnvFlags])
           /\ StoreEnv(b.st, b.env)
           /\ UNCHANGED <<avail, withOpt, check_libs, clean, mode, nscripts,
                          ignore_configure_errors, walk, phase>>

\* ObjectLibrary (lines 1047-1070): an environment is created and dropped,
\* the descriptor has no sconsNode and carries the additional sources; no
\* source check, no declareTarget.
ObjectLibrary(target, libraries, publicName, addSources) ==
  /\ phase = "run"
  /\ nbuilds < MaxBuilds
  /\ Len(libs) < MaxLibs
  /\ \E b \in {createEnv(ProjectState, libraries)} :
       /\ Commit([b.st EXCEPT !.libs =
                    Append(@, InternalLibChecker(target, libraries, FALSE,
                                                 [obj |-> "arg", flags |-> <<>>],
                                                 addSources))])
       /\ allTargets' = register(allTargets, registryKey(target, publicName),
                                 0, Len(b.st.libs) + 1)
       /\ nbuilds' = nbuilds + 1
       /\ Observe("ObjectLibrary", target, FALSE, libraries, b,
                  [publicName |-> publicName, externEnvFlags |-> Omitted,
                   globalEnvFlags |-> <<>>])
       /\ StoreEnv(b.st, b.env)
       /\ UNCHANGED <<avail, withOpt, check_libs, clean, mode, nscripts,
                      removedFromDefaultTargets, allAlias, declared,
                      defaultExternEnvFlags, ignore_configure_errors, walk, phase>>

Program(target, libraries, useEnv, hasSources) ==
  /\ phase = "run"
  /\ nbuilds < MaxBuilds
  /\ useEnv => userEnv.present
  /\ IF ~hasSources THEN Raise("Program", target)
     ELSE
       \E b \in {targetEnv(ProjectState, useEnv, libraries)} :
           /\ Commit(b.st)
           /\ Declare(b.env, target)
           /\ allTargets' = register(allTargets, target, NewNode, 0)
           /\ declared' = [declared EXCEPT ![target] = b.env]
           /\ nbuilds' = nbuilds + 1
           /\ Observe("Program", target, useEnv, libraries, b, NoArgs)
           /\ StoreEnv(b.st, b.env)
           /\ UNCHANGED <<avail, withOpt, check_libs, clean, mode, nscripts,
                          defaultExternEnvFlags,
                          ignore_configure_errors, walk, phase>>

\* The SConscript calls project.createEnv(libraries) and keeps the result
\* to pass it as env= later.
CreateEnv(libraries) ==
  /\ phase = "run"
  /\ nbuilds < MaxBuilds
  /\ \E b \in {createEnv(ProjectState, libraries)} :
         /\ Commit(b.st)
         /\ userEnv' = [b.env EXCEPT !.obj = "user"]
         /\ baseEnv' = IF b.env.obj = "base" THEN b.env ELSE b.st.env
         /\ nbuilds' = nbuilds + 1
         /\ Observe("createEnv", 0, FALSE, libraries, b, NoArgs)
         /\ UNCHANGED <<avail, withOpt, check_libs, clean, removedFromDefaultTargets,
                        mode, nscripts, defaultExternEnvFlags,
                        allAlias, allTargets, ignore_configure_errors, walk, phase, declared>>

\* UnitTest (lines 1604-1659): the environment of the test, then a clone
\* of it with the execLibraries appended; the builder's result is returned.
UnitTest(target, libraries, execLibraries, useEnv, hasSources) ==
  /\ phase = "run"
  /\ nbuilds < MaxBuilds
  /\ useEnv => userEnv.present
  /\ IF ~hasSources THEN Raise("UnitTest", target)
     ELSE
       \E b \in {targetEnv(ProjectState, useEnv, libraries)} :
         \E x \in {appendLibsToEnv(b.st, Clone(b.env), execLibraries)} :
           /\ Commit(x.st)
           /\ nbuilds' = nbuilds + 1
           /\ last' = [op |-> "UnitTest", target |-> target, useEnv |-> useEnv,
                       requested |-> IF useEnv THEN libraries
                                     ELSE commonLibs \o libraries,
                       allLibs |-> b.allLibs, err |-> b.err, env |-> b.env,
                       execEnv |-> x.env, execErr |-> x.err]
           /\ inClosure' = [l \in 1..MaxLibs |->
                              inClosure[l]
                              + (IF l \in LibsOf(b.allLibs) THEN 1 ELSE 0)
                              + (IF l \in LibsOf(x.allLibs) THEN 1 ELSE 0)]
           /\ StoreEnv(x.st, x.env)
           /\ UNCHANGED <<avail, withOpt, check_libs, clean, mode, nscripts,
                          defaultExternEnvFlags,
                          removedFromDefaultTargets, allAlias, allTargets,
                          ignore_configure_errors, walk, phase, declared>>

\* --------------------------------------------------------- ScriptTests
\* A script is modelled by its first line: no '# scons:' line, the line
\* '# scons: all', or '# scons:' followed by target names.
NoLine == [line |-> "none", deps |-> <<>>]

AllLine == [line |-> "all", deps |-> <<>>]

DepsLine(ds) == [line |-> "deps", deps |-> ds]

Registered(registry) == {n \in DOMAIN registry : registry[n].present}

\* allDeps = self.allTargets.keys(); allDeps.sort() (lines 1712-1713).
RECURSIVE SortedKeys(_)
SortedKeys(S) ==
  IF S = {} THEN <<>>
  ELSE <<CHOOSE x \in S : \A y \in S : x <= y>>
         \o SortedKeys(S \ {CHOOSE x \in S : \A y \in S : x <= y})

\* The orders self.allTargets.values() may come in (line 1703).
Orders(S) == {q \in NoRepeatSeqs(S, Cardinality(S)) : Len(q) = Cardinality(S)}

\* Lines 1705-1708: the names of the line that are not in allTargets.
unresolved(registry, ds) ==
  SelectSeq(ds, LAMBDA d : d \notin DOMAIN registry \/ ~registry[d].present)

\* Lines 1702-1715: the records the line refers to.
scriptTargets(registry, s, order) ==
  IF s.line = "all" THEN [k \in DOMAIN order |-> registry[order[k]]]
  ELSE [k \in DOMAIN s.deps |-> registry[s.deps[k]]]

\* Line 1716: depsFromFile = [d[0] for d in targets if d[0]].
depsFromFile(targets) ==
  SelectSeq([k \in DOMAIN targets |-> targets[k].node], LAMBDA n : n # 0)

\* Line 1717: libsFromFile = [d[1] for d in targets if d[1]].
libsFromFile(targets) ==
  SelectSeq([k \in DOMAIN targets |-> targets[k].checker], LAMBDA n : n # 0)

\* Lines 1719-1728: the environment of one script.
scriptEnv(st, useEnv, localLibraries) ==
  IF useEnv
  THEN appendLibsToEnv(st, Clone(userEnv), localLibraries \o userEnv.libraries)
  ELSE createEnv(st, localLibraries)

\* The state of one ScriptTests call between two scripts: the process-wide
\* state, the list to return, the Depends edges made, the local variable
\* dst (0 while unbound) and, per script gone through, what became of it.
NewCall(st) ==
  [st |-> st, allDst |-> <<>>, depends |-> <<>>, dst |-> 0, outcomes |-> <<>>,
   envs |-> <<>>, error |-> "none", err |-> <<>>, allDeps |-> <<>>]

\* Lines 1730-1742 for script i with its environment b built: the artifact
\* is created inside `if procEnvFlags:`; the Depends calls use dst whether
\* or not it was bound.
scriptTail(acc, i, libraries, b, fromFile, procEnvFlags) ==
  IF (fromFile # <<>> \/ libraries # <<>>) /\ ~procEnvFlags /\ acc.dst = 0
  THEN [acc EXCEPT !.st = b.st,
                   !.envs = Append(@, [script |-> i, env |-> b.env]),
                   !.outcomes = Append(@, "UnboundLocalError"),
                   !.error = "UnboundLocalError"]
  ELSE [acc EXCEPT !.st = b.st,
                   !.envs = Append(@, [script |-> i, env |-> b.env]),
                   !.dst = IF procEnvFlags THEN i ELSE @,
                   !.allDst = IF procEnvFlags THEN Append(@, i) ELSE @,
                   !.outcomes = Append(@, "built"),
                   !.depends =
                     (@ \o (IF fromFile # <<>>
                            THEN <<[dst |-> IF procEnvFlags THEN i ELSE acc.dst,
                                    script |-> i, deps |-> fromFile]>>
                            ELSE <<>>))
                        \o (IF libraries # <<>>
                            THEN <<[dst |-> IF procEnvFlags THEN i ELSE acc.dst,
                                    script |-> i, libs |-> libraries]>>
                            ELSE <<>>)]

\* Lines 1719-1742 for script i whose line refers to targets.
scriptBuild(acc, i, libraries, useEnv, procEnvFlags, targets) ==
  scriptTail(acc, i, libraries,
             scriptEnv(acc.st, useEnv, libraries \o libsFromFile(targets)),
             depsFromFile(targets), procEnvFlags)

\* A dependency check that skips the script in every mode.
onUnresolved_AlwaysSkip(acc, err) ==
  [acc EXCEPT !.outcomes = Append(@, "skipped")]

\* A dependency check that raises in every mode.
onUnresolved_AlwaysRaise(acc, err) ==
  [acc EXCEPT !.outcomes = Append(@, "ValueError"),
              !.error = "ValueError",
              !.err = err,
              !.allDeps = SortedKeys(Registered(allTargets))]

\* Lines 1709-1714: some names of the line are not registered.
onUnresolved(acc, err) ==
  IF mode = "production"
  THEN [acc EXCEPT !.outcomes = Append(@, "skipped")]
  ELSE [acc EXCEPT !.outcomes = Append(@, "ValueError"),
                   !.error = "ValueError",
                   !.err = err,
                   !.allDeps = SortedKeys(Registered(allTargets))]

\* Lines 1692-1742: one turn of the loop, for script s at position i.
scriptStep(acc, s, i, checkDependencies, libraries, useEnv, procEnvFlags, order) ==
  IF checkDependencies /\ s.line = "deps" /\ unresolved(allTargets, s.deps) # <<>>
  THEN onUnresolved(acc, unresolved(allTargets, s.deps))
  ELSE scriptBuild(acc, i, libraries, useEnv, procEnvFlags,
                   IF checkDependencies /\ s.line # "none"
                   THEN scriptTargets(allTargets, s, order) ELSE <<>>)

\* The for loop of lines 1691-1742; an exception ends it.
RECURSIVE scriptLoop(_, _, _, _, _, _, _, _)
scriptLoop(acc, sources, i, checkDependencies, libraries, useEnv, procEnvFlags, order) ==
  IF i > Len(sources) \/ acc.error # "none" THEN acc
  ELSE scriptLoop(scriptStep(acc, sources[i], i, checkDependencies, libraries,
                             useEnv, procEnvFlags, order),
                  sources, i + 1, checkDependencies, libraries, useEnv,
                  procEnvFlags, order)

\* ScriptTests (lines 1661-1743).  order is the order in which the dict
\* allTargets hands out its values.
ScriptTests(target, sources, checkDependencies, libraries, useEnv, procEnvFlags, order) ==
  /\ phase = "run"
  /\ nscripts < MaxScriptCalls
  /\ useEnv => userEnv.present
  /\ IF sources = <<>>
     THEN /\ Raise("ScriptTests", target)
     ELSE \E c \in {scriptLoop(NewCall(ProjectState), sources, 1, checkDependencies,
                               libraries, useEnv, procEnvFlags, order)} :
            /\ Commit(c.st)
            /\ baseEnv' = c.st.env
            /\ nscripts' = nscripts + 1
            /\ phase' = IF c.error # "none" THEN "raised" ELSE phase
            /\ last' = [op |-> "ScriptTests", target |-> target, sources |-> sources,
                        checkDependencies |-> checkDependencies,
                        libraries |-> libraries, useEnv |-> useEnv,
                        procEnvFlags |-> procEnvFlags,
                        allDst |-> c.allDst, depends |-> c.depends,
                        outcomes |-> c.outcomes, envs |-> c.envs,
                        error |-> c.error, err |-> c.err, allDeps |-> c.allDeps]
            /\ UNCHANGED <<avail, withOpt, check_libs, clean, mode, nbuilds,
                           removedFromDefaultTargets, allAlias, allTargets, userEnv,
                           defaultExternEnvFlags, ignore_configure_errors, walk,
                           inClosure, declared>>

\* An end() that aborts on any configure error, whatever the option says.
End_AbortsOnAnyError ==
  /\ phase = "run"
  /\ phase' = IF libs_error # <<>> THEN "exit1" ELSE "ended"
  /\ last' = [op |-> "end"]
  /\ UNCHANGED <<avail, withOpt, check_libs, clean, libs, allLibsChecked, libs_error,
                 removedFromDefaultTargets, allAlias, allTargets, userEnv,
                 ignore_configure_errors, walk, nbuilds, probes, verify, inClosure, declared,
                 baseEnv, check_env, mode, defaultExternEnvFlags, nscripts>>

\* An end() that never stops the run.
End_NeverExits ==
  /\ phase = "run"
  /\ phase' = "ended"
  /\ last' = [op |-> "end"]
  /\ UNCHANGED <<avail, withOpt, check_libs, clean, libs, allLibsChecked, libs_error,
                 removedFromDefaultTargets, allAlias, allTargets, userEnv,
                 ignore_configure_errors, walk, nbuilds, probes, verify, inClosure, declared,
                 baseEnv, check_env, mode, defaultExternEnvFlags, nscripts>>

\* end(): lines 752-771.
End ==
  /\ phase = "run"
  /\ phase' = IF libs_error # <<>> /\ ~ignore_configure_errors THEN "exit1" ELSE "ended"
  /\ last' = [op |-> "end"]
  /\ UNCHANGED <<avail, withOpt, check_libs, clean, libs, allLibsChecked, libs_error,
                 removedFromDefaultTargets, allAlias, allTargets, userEnv,
                 ignore_configure_errors, walk, nbuilds, probes, verify, inClosure, declared,
                 baseEnv, check_env, mode, defaultExternEnvFlags, nscripts>>

Next ==
  \/ \E ls \in LibraryLists(libs), e \in BOOLEAN, h \in BOOLEAN :
       StaticLibrary(NewTarget, ls, e, h, 0, Omitted, <<>>)
  \/ \E ls \in LibraryLists(libs), e \in BOOLEAN, h \in BOOLEAN :
       Program(NewTarget, ls, e, h)
  \/ \E ls \in LibraryLists(libs) : CreateEnv(ls)
  \/ \E ls \in TestLists(libs), xs \in TestLists(libs), e \in BOOLEAN, h \in BOOLEAN :
       UnitTest(NewTarget, ls, xs, e, h)
  \/ End

Spec == Init /\ [][Next]_vars

\* --------------------------------------- declarations and script tests
\* A third specification runs the declarations with names that may
\* collide, with publicName and with the flag arguments.
\* The libraries of a target are the first external one or an internal one.
PublicNames == {0} \cup TargetNames

ExternArgs == {Omitted, Given(<<1>>)}

GlobalArgs == {<<>>, <<2>>}

TargetLists(L) ==
  SeqsUpTo({1} \cup {l \in 1..Len(L) : L[l].internal}, MaxTestReq)

InitTargets ==
  /\ clean = FALSE
  /\ check_libs = TRUE
  /\ ignore_configure_errors = FALSE
  /\ avail \in {a \in [ExtLibs -> BOOLEAN] : \A l \in ExtLibs \ {1} : a[l]}
  /\ withOpt = [l \in ExtLibs |-> TRUE]
  /\ libs = [l \in ExtLibs |-> ExternalLib(l)]
  /\ allLibsChecked = <<>>
  /\ libs_error = <<>>
  /\ removedFromDefaultTargets = [t \in TargetNames |-> <<>>]
  /\ allAlias = {}
  /\ allTargets = [t \in TargetNames |-> [present |-> FALSE]]
  /\ userEnv = NoEnv
  /\ phase = "run"
  /\ nbuilds = 0
  /\ probes = [l \in 1..MaxLibs |-> 0]
  /\ verify = [l \in 1..MaxLibs |-> [first |-> "none", later |-> {}]]
  /\ inClosure = [l \in 1..MaxLibs |-> 0]
  /\ declared = [t \in TargetNames |-> NoEnv]
  /\ last = [op |-> "none"]
  /\ baseEnv = NewEnv
  /\ check_env = NoEnv
  /\ mode \in {"production", "debug"}
  /\ defaultExternEnvFlags = NoFlagsYet
  /\ nscripts = 0
  /\ walk = NoWalk

NextTargets ==
  \/ \E t \in TargetNames, p \in PublicNames, ls \in TargetLists(libs),
        x \in ExternArgs, g \in GlobalArgs, h \in BOOLEAN :
       StaticLibrary(t, ls, FALSE, h, p, x, g)
  \/ \E t \in TargetNames, p \in PublicNames, ls \in TargetLists(libs),
        x \in ExternArgs, g \in GlobalArgs, h \in BOOLEAN :
       SharedLibrary(t, ls, FALSE, h, p, x, g)
  \/ \E t \in TargetNames, p \in PublicNames, ls \in TargetLists(libs),
        a \in BOOLEAN :
       ObjectLibrary(t, ls, p, a)
  \/ \E t \in TargetNames, ls \in TargetLists(libs), h \in BOOLEAN :
       Program(t, ls, FALSE, h)

SpecTargets == InitTargets /\ [][NextTargets]_vars

\* ------------------------------------------------------ the script tests
\* A fourth specification declares targets of every kind under fresh names
\* and then calls ScriptTests on scripts whose first lines name registered
\* and unregistered targets, in production mode and in debug mode.  The
\* SConscripts declare their targets first and their script tests last.
ScriptLines ==
  {NoLine, AllLine, DepsLine(<<101>>)}
    \cup {DepsLine(ds) : ds \in {q \in NoRepeatSeqs(TargetNames, MaxBuilds) :
                                   Len(q) = MaxBuilds /\ q[1] = 101}}

ScriptLibs == {<<>>, <<1>>}

NextScripts ==
  \/ /\ nscripts = 0
     /\ \E ls \in ScriptLibs, h \in BOOLEAN :
          StaticLibrary(NewTarget, ls, FALSE, h, 0, Omitted, <<>>)
  \/ /\ nscripts = 0
     /\ \E ls \in ScriptLibs, h \in BOOLEAN :
          SharedLibrary(NewTarget, ls, FALSE, h, 0, Omitted, <<>>)
  \/ /\ nscripts = 0
     /\ \E ls \in ScriptLibs : ObjectLibrary(NewTarget, ls, 0, TRUE)
  \/ /\ nscripts = 0
     /\ \E ls \in ScriptLibs, h \in BOOLEAN : Program(NewTarget, ls, FALSE, h)
  \/ /\ nscripts = 0
     /\ \E ls \in ScriptLibs, h \in BOOLEAN :
          UnitTest(NewTarget, ls, <<>>, FALSE, h)
  \/ \E ss \in SeqsUpTo(ScriptLines, MaxScripts), c \in BOOLEAN,
        ls \in ScriptLibs, f \in BOOLEAN,
        o \in Orders(Registered(allTargets)) :
       ScriptTests(100, ss, c, ls, FALSE, f, o)

SpecScripts == InitTargets /\ [][NextScripts]_vars

\* ------------------------------------------------ the resolver alone
\* A second specification applies the resolver to every dependency graph
\* of NLibsR libraries in which a library depends on libraries declared
\* before it (so the graph has no cycle), and to every 'libraries' list.
\* With twin, the last library has the (name, id) of the first one.  The
\* libraries are object libraries with additional sources, as ObjectLibrary
\* with libraries= and sources= declares them.
RECURSIVE Graphs(_, _)
Graphs(n, twin) ==
  IF n = 0 THEN {<<>>}
  ELSE {Append(g, [name |-> IF twin /\ n = NLibsR THEN 1 ELSE n, id |-> 0,
                   dependencies |-> ds, internal |-> TRUE,
                   sconsNode |-> FALSE, checkDone |-> FALSE,
                   envFlags |-> [obj |-> "arg", flags |-> <<>>],
                   addSources |-> TRUE]) :
          g \in Graphs(n - 1, twin), ds \in NoRepeatSeqs(1..(n - 1), MaxDepsR)}

InitResolve ==
  /\ libs \in Graphs(NLibsR, FALSE) \cup Graphs(NLibsR, TRUE)
  /\ clean = FALSE
  /\ check_libs = TRUE
  /\ ignore_configure_errors = FALSE
  /\ avail = [l \in ExtLibs |-> TRUE]
  /\ withOpt = [l \in ExtLibs |-> TRUE]
  /\ allLibsChecked = <<>>
  /\ libs_error = <<>>
  /\ removedFromDefaultTargets = [t \in TargetNames |-> <<>>]
  /\ allAlias = {}
  /\ allTargets = [t \in TargetNames |-> [present |-> FALSE]]
  /\ userEnv = NoEnv
  /\ phase = "run"
  /\ nbuilds = 0
  /\ probes = [l \in 1..MaxLibs |-> 0]
  /\ verify = [l \in 1..MaxLibs |-> [first |-> "none", later |-> {}]]
  /\ inClosure = [l \in 1..MaxLibs |-> 0]
  /\ declared = [t \in TargetNames |-> NoEnv]
  /\ last = [op |-> "none"]
  /\ baseEnv = NewEnv
  /\ check_env = NoEnv
  /\ mode = "debug"
  /\ defaultExternEnvFlags = NoFlagsYet
  /\ nscripts = 0
  /\ walk = NoWalk

\* Lines 819-824 on their own.
Resolve(requested) ==
  /\ last.op = "none"
  /\ last' = [op |-> "resolve", requested |-> requested,
              collected |-> collectLibs(libs, requested, 1),
              allLibs |-> resolvedLibs(libs, requested),
              ADDSRC |-> postconfigureAll(libs, resolvedLibs(libs, requested))]
  /\ UNCHANGED <<avail, withOpt, check_libs, clean, libs, allLibsChecked, libs_error,
                 removedFromDefaultTargets, allAlias, allTargets, userEnv,
                 ignore_configure_errors, walk, phase, nbuilds, probes, verify,
                 inClosure, declared,
                 baseEnv, check_env, mode, defaultExternEnvFlags, nscripts>>

NextResolve ==
  /\ last.op = "none"
  /\ \E ls \in NoRepeatSeqs(1..Len(libs), MaxReq) : Resolve(ls)

SpecResolve == InitResolve /\ [][NextResolve]_vars

\* ------------------------------------------------- uniqLibs alone
\* A third specification applies uniqLibs to every list of (library,
\* level) pairs over NLibsU descriptors.  The first three descriptors have
\* one name, and the ids are chosen freely, so that two descriptors can
\* have the same (name, id), the same name only, or different names.
KeyTables ==
  {[l \in 1..NLibsU |->
      [name |-> IF l <= 3 THEN 1 ELSE l, id |-> ids[l], dependencies |-> <<>>,
       internal |-> FALSE, sconsNode |-> FALSE, checkDone |-> FALSE]] :
     ids \in [1..NLibsU -> {0, 1}]}

InitDedup ==
  /\ libs \in KeyTables
  /\ clean = FALSE
  /\ check_libs = TRUE
  /\ ignore_configure_errors = FALSE
  /\ avail = [l \in ExtLibs |-> TRUE]
  /\ withOpt = [l \in ExtLibs |-> TRUE]
  /\ allLibsChecked = <<>>
  /\ libs_error = <<>>
  /\ removedFromDefaultTargets = [t \in TargetNames |-> <<>>]
  /\ allAlias = {}
  /\ allTargets = [t \in TargetNames |-> [present |-> FALSE]]
  /\ userEnv = NoEnv
  /\ phase = "run"
  /\ nbuilds = 0
  /\ probes = [l \in 1..MaxLibs |-> 0]
  /\ verify = [l \in 1..MaxLibs |-> [first |-> "none", later |-> {}]]
  /\ inClosure = [l \in 1..MaxLibs |-> 0]
  /\ declared = [t \in TargetNames |-> NoEnv]
  /\ last = [op |-> "none"]
  /\ baseEnv = NewEnv
  /\ check_env = NoEnv
  /\ mode = "debug"
  /\ defaultExternEnvFlags = NoFlagsYet
  /\ nscripts = 0
  /\ walk = NoWalk

\* One call of uniqLibs, and a second one on what it returned.
Dedup(x) ==
  /\ last.op = "none"
  /\ last' = [op |-> "uniqLibs", input |-> x, output |-> uniqLibs(libs, x),
              twice |-> uniqLibs(libs, uniqLibs(libs, x))]
  /\ UNCHANGED <<avail, withOpt, check_libs, clean, libs, allLibsChecked, libs_error,
                 removedFromDefaultTargets, allAlias, allTargets, userEnv,
                 ignore_configure_errors, walk, phase, nbuilds, probes, verify,
                 inClosure, declared,
                 baseEnv, check_env, mode, defaultExternEnvFlags, nscripts>>

NextDedup ==
  /\ last.op = "none"
  /\ \E x \in SeqsUpTo((1..Len(libs)) \X {0, 1}, MaxLenU) : Dedup(x)

SpecDedup == InitDedup /\ [][NextDedup]_vars

\* ------------------------------------ findLibsDependencies step by step
\* A fourth specification runs findLibsDependencies(root) one call and one
\* return at a time, on graphs that may have a cycle: an acyclic graph of
\* NLibsW libraries, to which one edge from a library to itself or to a
\* later one may be added.  A frame of the stack is a running call of
\* internFindLibDependencies: its library, its level, the dependency it
\* is at and its local list ll.  The bottom frame is findLibsDependencies
\* itself, which does not append its library.
RECURSIVE WalkGraphs(_)
WalkGraphs(n) ==
  IF n = 0 THEN {<<>>}
  ELSE {Append(g, [name |-> n, id |-> 0, dependencies |-> ds, internal |-> FALSE,
                   sconsNode |-> FALSE, checkDone |-> FALSE]) :
          g \in WalkGraphs(n - 1), ds \in NoRepeatSeqs(1..(n - 1), MaxDepsW)}

WithBackEdge(g, from, to) ==
  [g EXCEPT ![from].dependencies = Append(@, to)]

CyclicGraphs ==
  WalkGraphs(NLibsW) \cup
  {WithBackEdge(g, e[1], e[2]) :
     g \in WalkGraphs(NLibsW),
     e \in {p \in (1..NLibsW) \X (1..NLibsW) : p[1] <= p[2]}}

InitWalk ==
  /\ libs \in CyclicGraphs
  /\ \E root \in 1..NLibsW :
       walk = [result |-> "running", root |-> root, ll |-> <<>>,
               stack |-> << [lib |-> root, level |-> -1, i |-> 1, ll |-> <<>>] >>]
  /\ clean = FALSE
  /\ check_libs = TRUE
  /\ ignore_configure_errors = FALSE
  /\ avail = [l \in ExtLibs |-> TRUE]
  /\ withOpt = [l \in ExtLibs |-> TRUE]
  /\ allLibsChecked = <<>>
  /\ libs_error = <<>>
  /\ removedFromDefaultTargets = [t \in TargetNames |-> <<>>]
  /\ allAlias = {}
  /\ allTargets = [t \in TargetNames |-> [present |-> FALSE]]
  /\ userEnv = NoEnv
  /\ phase = "run"
  /\ nbuilds = 0
  /\ probes = [l \in 1..MaxLibs |-> 0]
  /\ verify = [l \in 1..MaxLibs |-> [first |-> "none", later |-> {}]]
  /\ inClosure = [l \in 1..MaxLibs |-> 0]
  /\ declared = [t \in TargetNames |-> NoEnv]
  /\ last = [op |-> "none"]
  /\ baseEnv = NewEnv
  /\ check_env = NoEnv
  /\ mode = "debug"
  /\ defaultExternEnvFlags = NoFlagsYet
  /\ nscripts = 0

WalkFrame == UNCHANGED <<avail, withOpt, check_libs, clean, libs, allLibsChecked,
                         libs_error, removedFromDefaultTargets, allAlias, allTargets,
                         userEnv, ignore_configure_errors, phase, nbuilds, probes,
                         verify, inClosure, declared, last, baseEnv, check_env, mode, defaultExternEnvFlags, nscripts>>

Top == walk.stack[Len(walk.stack)]

\* The dependency the running call is at.
AtDependency == libs[Top.lib].dependencies[Top.i]

\* A call that is not made when its library is already being walked.
WalkCall_DetectCycle ==
  /\ walk.result = "running"
  /\ Top.i <= Len(libs[Top.lib].dependencies)
  /\ Len(walk.stack) < RecursionLimit
  /\ walk' = IF \E k \in DOMAIN walk.stack :
                    walk.stack[k].lib = AtDependency /\ walk.stack[k].level >= 0
             THEN [walk EXCEPT !.stack[Len(walk.stack)].i = @ + 1]
             ELSE [walk EXCEPT !.stack =
                     Append(@, [lib |-> AtDependency, level |-> Top.level + 1,
                                i |-> 1, ll |-> <<>>])]
  /\ WalkFrame

\* Lines 961-962 and 970-971: internFindLibDependencies is called for the
\* next dependency, one level deeper.
WalkCall ==
  /\ walk.result = "running"
  /\ Top.i <= Len(libs[Top.lib].dependencies)
  /\ Len(walk.stack) < RecursionLimit
  /\ walk' = [walk EXCEPT !.stack =
                 Append(@, [lib |-> AtDependency, level |-> Top.level + 1,
                            i |-> 1, ll |-> <<>>])]
  /\ WalkFrame

\* The same call when the stack is full: the interpreter raises
\* RecursionError and the walk is over without a result.
WalkOverflow ==
  /\ walk.result = "running"
  /\ Top.i <= Len(libs[Top.lib].dependencies)
  /\ Len(walk.stack) = RecursionLimit
  /\ walk' = [walk EXCEPT !.result = "RecursionError"]
  /\ WalkFrame

\* Lines 963-964 and 972: a call has gone through its dependencies; it
\* appends its own entry and returns its list, which the caller extends
\* its list with.  The bottom frame returns the result.
WalkReturn ==
  /\ walk.result = "running"
  /\ Top.i > Len(libs[Top.lib].dependencies)
  /\ walk' = IF Len(walk.stack) = 1
             THEN [walk EXCEPT !.result = "returned", !.ll = Top.ll, !.stack = <<>>]
             ELSE [walk EXCEPT !.stack =
                     [SubSeq(@, 1, Len(@) - 1) EXCEPT
                        ![Len(walk.stack) - 1].ll =
                            @ \o Top.ll \o << <<Top.lib, Top.level>> >>,
                        ![Len(walk.stack) - 1].i = @ + 1]]
  /\ WalkFrame

NextWalk == WalkCall \/ WalkOverflow \/ WalkReturn

\* The interpreter runs the one thread of the SConscript without pause.
SpecWalk == InitWalk /\ [][NextWalk]_vars /\ WF_vars(NextWalk)


\* =================================================================
\* Properties
\* =================================================================
BuildOps == {"StaticLibrary", "Program", "createEnv", "UnitTest"}

\* The last operation built an environment (and did not raise).
LastBuilt == last.op \in BuildOps /\ "raised" \notin DOMAIN last

AllLibs == 1..Len(libs)

DirectDeps(l) == Range(libs[l].dependencies)

RECURSIVE DepClosure(_)
DepClosure(S) ==
  IF (UNION {DirectDeps(x) : x \in S}) \subseteq S THEN S
  ELSE DepClosure(S \cup UNION {DirectDeps(x) : x \in S})

\* Every library l depends on, directly or transitively.
TransDeps(l) == DepClosure(DirectDeps(l))

\* Verification of l fails in a build that has l in its resolved list.
Fails(l) ==
  needConfigure /\ enabled(libs, l) /\ ~(configure(libs, l) /\ check(libs, l))

Degraded(t) == declared[t].present /\ missingDeps(declared[t]) # <<>>

\* ---------------------------------------------------------------- C1
Key(l) == <<libs[l].name, libs[l].id>>

Resolved == "allLibs" \in DOMAIN last

\* C1: in the resolved list appendLibsToEnv iterates, every library comes
\* strictly after every library it depends on, directly or transitively
\* (a library being what uniqLibs tells apart: a name and an id).
C1_DependenciesFirst ==
  Resolved =>
    \A j \in DOMAIN last.allLibs :
      \A d \in TransDeps(last.allLibs[j][1]) :
        \E i \in 1..(j - 1) : Key(last.allLibs[i][1]) = Key(d)

\* Two libraries are requested, a chain of two dependency edges is
\* resolved and uniqLibs dropped a repeated entry.
C1_Witness ==
  /\ Resolved /\ last.op = "resolve"
  /\ Len(last.requested) = 2
  /\ Len(last.allLibs) < Len(last.collected)
  /\ \E j \in DOMAIN last.allLibs :
       \E d \in DirectDeps(last.allLibs[j][1]) : DirectDeps(d) # {}

C3_LaterCallsRepeatFirstResult ==
  \A l \in AllLibs :
    verify[l].first # "none" => verify[l].later \subseteq {verify[l].first}

\* ---------------------------------------------------------------- C4
\* C4: of two descriptors with one name and different ids, each is probed
\* once when it is first verified (library checking being on).
C4_MemoKeyedByIdentity ==
  \A l \in AllLibs, m \in AllLibs :
    ( /\ l # m
      /\ libs[l].name = libs[m].name /\ libs[l].id # libs[m].id
      /\ ~libs[m].sconsNode /\ needCheck
      /\ verify[m].first # "none" )
    => probes[m] = 1

\* ---------------------------------------------------------------- C5
\* C5: when a library of the resolved list fails, every library of the
\* list is still initialised and postconfigured, and every enabled one is
\* still verified, configured and checked on the target's environment.
C5_FailureDoesNotStopTheRest ==
  (LastBuilt /\ last.err # <<>>) =>
    /\ LibsOf(last.allLibs) \subseteq last.env.inited
    /\ LibsOf(last.allLibs) \subseteq last.env.postconfigured
    /\ \A l \in LibsOf(last.allLibs) :
         enabled(libs, l) =>
           /\ l \in last.env.configured
           /\ l \in last.env.checked
           /\ verify[l].first # "none"

\* A failed library is followed in the resolved list by one that passed.
C5_Witness ==
  /\ LastBuilt
  /\ \E i \in DOMAIN last.allLibs, j \in DOMAIN last.allLibs :
       /\ i < j
       /\ last.allLibs[i][1] \in Range(last.err)
       /\ last.allLibs[j][1] \notin Range(last.err)
       /\ last.allLibs[j][1] \in last.env.checked
       /\ last.allLibs[j][1] # sconsProject

\* ---------------------------------------------------------------- C6
FailedOf(allLibs) == {l \in LibsOf(allLibs) : Fails(l)}

RECURSIVE FailedNames(_, _)
FailedNames(allLibs, i) ==
  IF i > Len(allLibs) THEN <<>>
  ELSE (IF Fails(allLibs[i][1]) THEN <<libs[allLibs[i][1]].name>> ELSE <<>>)
       \o FailedNames(allLibs, i + 1)

\* C6 as stated: the missing list of the environment a build returns holds
\* exactly the names of the libraries of its resolved list that failed in
\* this build, each once.
C6_MissingIsTheFailedSet ==
  LastBuilt =>
    /\ Range(last.env.missing) = {libs[l].name : l \in FailedOf(last.allLibs)}
    /\ \A i \in DOMAIN last.env.missing, j \in DOMAIN last.env.missing :
         i # j => last.env.missing[i] # last.env.missing[j]

\* C6 as amended: the missing list is the list inherited from the
\* environment passed as env= (empty for createEnv) followed by the name of
\* every library of the resolved list that failed in this build, in the
\* order of the resolved list, one entry per failed descriptor.
C6_MissingIsInheritedThenFailed ==
  LastBuilt =>
    last.env.missing =
      (IF last.useEnv THEN userEnv.missing ELSE <<>>) \o FailedNames(last.allLibs, 1)

\* A build on an inherited environment with a failure of its own and a
\* library that passed.
C6_Witness ==
  /\ LastBuilt /\ last.useEnv
  /\ userEnv.missing # <<>>
  /\ last.err # <<>>
  /\ \E l \in LibsOf(last.allLibs) \ {sconsProject} : l \notin Range(last.err)

\* ---------------------------------------------------------------- C7
\* C7: a library with a sconsNode never has its scratch check run and
\* every checkLibrary call for it returns True.
C7_InternalAlwaysPasses ==
  \A l \in AllLibs :
    libs[l].sconsNode =>
      /\ probes[l] = 0
      /\ verify[l].first # "fail" /\ "fail" \notin verify[l].later

\* An internal library went through checkLibrary.
C7_Witness ==
  \E l \in AllLibs : libs[l].sconsNode /\ verify[l].first = "pass"

\* ---------------------------------------------------------------- C8
\* The libraries a target depends on: everything requested for its
\* environment and what that depends on.
ClosureOf(t) ==
  Range(declared[t].libraries) \cup DepClosure(Range(declared[t].libraries))

C9_IgnoreErrorsKeepsDegradedInAll ==
  \A t \in TargetNames :
    Degraded(t) => (t \in allAlias <=> ignore_configure_errors)

\* C9 as amended: a target with a missing dependency is kept out of 'all'
\* and recorded in removedFromDefaultTargets whatever the option is; the
\* option only decides whether end() stops the run.
C9_DegradedNeverInAll ==
  /\ \A t \in TargetNames :
       Degraded(t) => /\ t \notin allAlias
                      /\ removedFromDefaultTargets[t] = missingDeps(declared[t])
  /\ (phase = "exit1") => ~ignore_configure_errors
  /\ (phase = "ended" /\ \E t \in TargetNames : Degraded(t)) => ignore_configure_errors

\* The run went on with the option set, a degraded target left out of
\* 'all' and another target in it.
C9_Witness ==
  /\ phase = "ended" /\ ignore_configure_errors
  /\ \E t \in TargetNames : Degraded(t) /\ t \notin allAlias
  /\ allAlias # {}

\* --------------------------------------------------------------- C10
\* C10: with ignore_configure_errors set and a failure recorded, end()
\* does not exit, 'all' holds only targets without missing dependency and
\* every degraded target is in removedFromDefaultTargets with its names.
C10_IgnoredErrorsBuildTheRest ==
  (phase # "run" /\ phase # "raised" /\ ignore_configure_errors /\ libs_error # <<>>) =>
    /\ phase = "ended"
    /\ \A t \in allAlias : declared[t].present /\ ~Degraded(t)
    /\ \A t \in TargetNames :
         Degraded(t) => removedFromDefaultTargets[t] = missingDeps(declared[t])

\* end() returned with the option set, a failure recorded, one target
\* degraded and one not.
C10_Witness ==
  /\ phase = "ended" /\ ignore_configure_errors /\ libs_error # <<>>
  /\ \E t \in TargetNames : Degraded(t)
  /\ \E t \in TargetNames : declared[t].present /\ ~Degraded(t) /\ t \in allAlias

\* --------------------------------------------------------------- C11
\* C11: once end() has run, the run was stopped with exit status 1 exactly
\* when libs_error is not empty and ignore_configure_errors is false; so
\* it was stopped whenever a declared target has a missing dependency and
\* the option is false, and it was not stopped when libs_error is empty.
C11_EndExitsOnRecordedFailure ==
  (phase \in {"ended", "exit1"}) =>
    /\ (phase = "exit1") <=> (libs_error # <<>> /\ ~ignore_configure_errors)
    /\ ((\E t \in TargetNames : Degraded(t)) /\ ~ignore_configure_errors)
         => phase = "exit1"
    /\ (libs_error = <<>>) => phase = "ended"

\* end() stopped a run that declared a degraded target and a sound one.
C11_Witness ==
  /\ phase = "exit1"
  /\ \E t \in TargetNames : Degraded(t)
  /\ \E t \in TargetNames : declared[t].present /\ ~Degraded(t)

\* --------------------------------------------------------------- C12
TargetOps == {"StaticLibrary", "Program", "UnitTest"}

\* C12: a target-declaring operation that completed has put its target in
\* allTargets and, when a library of its resolved list failed
\* verification, has recorded the target in removedFromDefaultTargets.
C12_CompletedOpRegistersTarget ==
  (last.op \in TargetOps /\ "raised" \notin DOMAIN last) =>
    /\ allTargets[last.target].present
    /\ (\E l \in LibsOf(last.allLibs) : l \in Range(libs_error))
         => removedFromDefaultTargets[last.target] # <<>>

\* --------------------------------------------------------------- C13
KeysOf(S) == {Key(l) : l \in S}

\* The requested libraries and everything reachable from them.
Reachable(requested) == Range(requested) \cup DepClosure(Range(requested))

\* C13: the resolved list holds the requested libraries and every library
\* reachable from them through dependency edges, nothing else, and each
\* (name, id) once.
C13_ResolvedIsTheClosure ==
  Resolved =>
    /\ KeysOf(LibsOf(last.allLibs)) = KeysOf(Reachable(last.requested))
    /\ LibsOf(last.allLibs) \subseteq Reachable(last.requested)
    /\ \A i \in DOMAIN last.allLibs, j \in DOMAIN last.allLibs :
         i # j => Key(last.allLibs[i][1]) # Key(last.allLibs[j][1])

\* Two requested libraries share a dependency that is reached through
\* another dependency, so the closure is larger than the request and the
\* list before uniqLibs is longer than the closure.
C13_Witness ==
  /\ Resolved /\ last.op = "resolve"
  /\ Len(last.requested) = 2
  /\ \E i \in DOMAIN last.allLibs : last.allLibs[i][2] >= 1
  /\ Len(last.allLibs) < Len(last.collected)

\* --------------------------------------------------------------- C14
\* The positions of x that hold the first entry of their (name, id).
FirstOccurrences(x) ==
  {i \in DOMAIN x : \A j \in 1..(i - 1) : Key(x[j][1]) # Key(x[i][1])}

\* The k-th smallest element of a set of positions.
Nth(I, k) == CHOOSE i \in I : Cardinality({j \in I : j < i}) = k - 1

\* The entries of x at its first occurrences, in the order of x.
FirstEntries(x) ==
  [k \in 1..Cardinality(FirstOccurrences(x)) |-> x[Nth(FirstOccurrences(x), k)]]

\* C14: uniqLibs returns, for every (name, id) of its input, the first
\* entry with that (name, id) together with the level of that entry, and
\* nothing else, in the order in which these entries are in the input.
C14_KeepsFirstOccurrences ==
  (last.op = "uniqLibs") => last.output = FirstEntries(last.input)

\* An input of three entries in which a (name, id) comes back with another
\* level and from another descriptor, next to a descriptor that has the
\* same name and another id.
C14_Witness ==
  /\ last.op = "uniqLibs"
  /\ Len(last.input) = 3 /\ Len(last.output) = 2
  /\ \E i \in DOMAIN last.input, j \in DOMAIN last.input :
       /\ i < j
       /\ Key(last.input[i][1]) = Key(last.input[j][1])
       /\ last.input[i][1] # last.input[j][1]
       /\ last.input[i][2] # last.input[j][2]
  /\ \E i \in DOMAIN last.output, j \in DOMAIN last.output :
       /\ libs[last.output[i][1]].name = libs[last.output[j][1]].name
       /\ libs[last.output[i][1]].id # libs[last.output[j][1]].id

\* --------------------------------------------------------------- C15
\* Position of the first entry of x that has the (name, id) of library l.
FirstIndex(x, l) == CHOOSE i \in FirstOccurrences(x) : Key(x[i][1]) = Key(l)

\* C15: uniqLibs applied to its own result returns that result, and two
\* entries of the result are in the order in which their (name, id) first
\* occur in the input.
C15_DedupIdempotentOrderKept ==
  (last.op = "uniqLibs") =>
    /\ last.twice = last.output
    /\ \A a \in DOMAIN last.output, b \in DOMAIN last.output :
         a < b => FirstIndex(last.input, last.output[a][1])
                  < FirstIndex(last.input, last.output[b][1])

\* An input whose first and last entries have one (name, id), with an
\* entry of another (name, id) between them.
C15_Witness ==
  /\ last.op = "uniqLibs"
  /\ Len(last.input) = 3 /\ Len(last.output) = 2
  /\ Key(last.input[1][1]) = Key(last.input[3][1])
  /\ last.twice = last.output

\* --------------------------------------------------------------- C16
\* The levels at which the (name, id) of library l is found in list x.
LevelsOf(x, l) == {x[i][2] : i \in {j \in DOMAIN x : Key(x[j][1]) = Key(l)}}

\* No two descriptors of the table have one (name, id).
DistinctKeys == \A l \in AllLibs, m \in AllLibs : l # m => Key(l) # Key(m)

\* C16: every entry of the resolved list is the first entry of its
\* (name, id) in the list uniqLibs was given, and its level is the lowest
\* level at which that (name, id) is in that list (stated for descriptors
\* that all differ in (name, id)).
C16_KeptEntryHasMinimumDepth ==
  (last.op = "resolve" /\ DistinctKeys) =>
    \A k \in DOMAIN last.allLibs :
      /\ last.allLibs[k] = last.collected[FirstIndex(last.collected, last.allLibs[k][1])]
      /\ \A v \in LevelsOf(last.collected, last.allLibs[k][1]) : last.allLibs[k][2] <= v

\* --------------------------------------------------------------- C17
\* C17 as stated: in the resolved list every library that was not
\* requested comes before every library that was requested.
C17_RequestedComeLast ==
  (last.op = "resolve" /\ DistinctKeys) =>
    \A i \in DOMAIN last.allLibs, j \in DOMAIN last.allLibs :
      ( /\ last.allLibs[i][1] \notin Range(last.requested)
        /\ last.allLibs[j][1] \in Range(last.requested) ) => i < j

\* C17 as amended: the resolved list ends with a requested library, every
\* library that was not requested comes before a requested library that
\* depends on it, and with one requested library that library is the last
\* entry and the only requested one; the dependencies of a later requested
\* library may follow an earlier requested library.
C17_RequestedAfterOwnDependencies ==
  (last.op = "resolve" /\ DistinctKeys /\ last.requested # <<>>) =>
    /\ last.allLibs[Len(last.allLibs)][1] \in Range(last.requested)
    /\ \A i \in DOMAIN last.allLibs :
         last.allLibs[i][1] \notin Range(last.requested) =>
           \E j \in DOMAIN last.allLibs :
             /\ i < j
             /\ last.allLibs[j][1] \in Range(last.requested)
             /\ last.allLibs[i][1] \in TransDeps(last.allLibs[j][1])
    /\ (Len(last.requested) = 1) =>
         \A i \in DOMAIN last.allLibs :
           (last.allLibs[i][1] = last.requested[1]) <=> (i = Len(last.allLibs))

\* Two libraries are requested and a dependency of the second one comes
\* after the first one.
C17_Witness ==
  /\ last.op = "resolve" /\ DistinctKeys
  /\ Len(last.requested) = 2
  /\ \E i \in DOMAIN last.allLibs, j \in DOMAIN last.allLibs :
       /\ i < j
       /\ last.allLibs[i][1] = last.requested[1]
       /\ last.allLibs[j][1] \in DirectDeps(last.requested[2])
       /\ last.allLibs[j][1] \notin Range(last.requested)

\* --------------------------------------------------------------- C18
\* A library that root reaches through dependency edges is on a cycle.
CycleReachable(root) == \E l \in TransDeps(root) : l \in TransDeps(l)

\* C18: findLibsDependencies returns a result only when no dependency
\* cycle is reachable from its argument, and the result is then the
\* post-order list; when a cycle is reachable the calls nest until the
\* interpreter gives up, and nothing else ends the walk; every walk on a
\* graph without a reachable cycle returns.
C18_ReturnsIffNoCycleReachable ==
  /\ [](walk.result = "returned" =>
         /\ ~CycleReachable(walk.root)
         /\ walk.ll = findLibsDependencies(libs, walk.root))
  /\ [](walk.result = "RecursionError" => CycleReachable(walk.root))
  /\ [](walk.result \in {"running", "returned", "RecursionError"})
  /\ <>(walk.result # "running")

\* A walk that nested down to the recursion limit on a cycle its root is
\* not part of, after a call had already returned.
C18_Witness ==
  /\ walk.result = "RecursionError"
  /\ walk.root \notin TransDeps(walk.root)
  /\ \E k \in DOMAIN walk.stack : walk.stack[k].ll # <<>>

\* --------------------------------------------------------------- C19
IsPrefix(s, t) == Len(s) <= Len(t) /\ SubSeq(t, 1, Len(s)) = s

NoRepeat(s) == \A i \in DOMAIN s, j \in DOMAIN s : i # j => s[i] # s[j]

\* C19: every step leaves what libs_error held in place, at the front of
\* the list, no library is in the list twice, and when a build returns
\* every library that failed in it is in the list.
C19_FailureListAppendOnly ==
  [][ /\ IsPrefix(libs_error, libs_error')
      /\ NoRepeat(libs_error')
      /\ (last'.op \in BuildOps /\ "raised" \notin DOMAIN last') =>
           /\ Range(last'.err) \subseteq Range(libs_error')
           /\ \A l \in LibsOf(last'.allLibs) :
                (needConfigure /\ enabled(libs', l)
                 /\ ~(configure(libs', l) /\ check(libs', l)))
                => l \in Range(libs_error') ]_vars

\* Two builds had the same library fail: it is in libs_error once.
C19_Witness ==
  /\ nbuilds = 2 /\ LastBuilt
  /\ last.op \in {"StaticLibrary", "Program"} /\ last.target = 102
  /\ ~last.useEnv /\ last.err # <<>>
  /\ removedFromDefaultTargets[101] # <<>>
  /\ Len(libs_error) = 1

\* --------------------------------------------------------------- C20
\* C20: no step changes self.env, and a step that builds a target or a
\* UnitTest leaves the environment of the SConscript, passed as env= or
\* not, as it was; only createEnv gives the SConscript a new one.
C20_BaseAndCallerEnvNotMutated ==
  [][ /\ baseEnv' = baseEnv
      /\ (last'.op # "createEnv") => userEnv' = userEnv ]_vars

\* A target was built with libraries of its own from the environment the
\* SConscript passed as env=, which had libraries and a missing one
\* already: the target's environment has more than the one passed in.
C20_Witness ==
  /\ LastBuilt /\ last.op \in TargetOps /\ last.useEnv
  /\ baseEnv = NewEnv
  /\ userEnv.missing # <<>>
  /\ last.err # <<>>
  /\ Len(last.env.libraries) > Len(userEnv.libraries)
  /\ Len(last.env.missing) > Len(userEnv.missing)

\* The libraries the configure pass of the last build may have configured
\* and checked in the target's own environment: the enabled ones of its
\* resolved list, and what the environment passed as env= had already.
OwnChecked ==
  {l \in LibsOf(last.allLibs) : enabled(libs, l)}
    \cup (IF last.useEnv THEN userEnv.checked ELSE {})

\* C21 (as stated): the scratch environment of a verification is a clone
\* of the environment of the target being built, so it starts with that
\* environment's settings, its SconsProjectLibraries among them.
C21_ScratchClonedFromTargetEnv ==
  (LastBuilt /\ nbuilds = 1 /\ check_env.present)
    => check_env.libraries = last.env.libraries

\* C21 (amended): the scratch environment of a verification is a clone of
\* self.env, the shared base environment, not of the target's environment:
\* it is an object of its own with the base environment's settings.  The
\* verification, passed or failed, leaves the base environment as it was
\* constructed and puts nothing in the target's environment: what is
\* checked there is what the target's own configure pass checked.
C21_ScratchClonedFromBaseEnv ==
  /\ baseEnv = NewEnv
  /\ check_env.present =>
       /\ check_env.obj = "local"
       /\ check_env.libraries = baseEnv.libraries
       /\ check_env.missing = baseEnv.missing
       /\ check_env.hasMissing = baseEnv.hasMissing
       /\ check_env.postconfigured = baseEnv.postconfigured
  /\ LastBuilt => last.env.checked \subseteq OwnChecked

\* A verification failed in the last build; its scratch environment has
\* checked a dependency that the target's environment has not, and the
\* target's environment has the libraries the scratch one lacks.
C21_Witness ==
  /\ LastBuilt /\ nbuilds = 1
  /\ check_env.present
  /\ \E l \in ExtLibs : probes[l] > 0 /\ ~avail[l]
  /\ ~(check_env.checked \subseteq last.env.checked)
  /\ last.env.libraries # <<>>
  /\ last.err # <<>>

\* --------------------------------------------------------------- C22
SourceOps == {"StaticLibrary", "SharedLibrary", "Program", "UnitTest", "ScriptTests"}

\* C22: a StaticLibrary, SharedLibrary, Program, UnitTest or ScriptTests
\* call without a source file raises at once: the step that raises leaves
\* the probe counts, the failure list, the check memo, the scratch and base
\* environments, the target registry and the degraded-target map as they
\* were, and no target is declared.
C22_NoSourcesChangesNothing ==
  [][ ("raised" \in DOMAIN last' /\ last' # last) =>
        /\ last'.op \in SourceOps
        /\ phase' = "raised"
        /\ probes' = probes /\ verify' = verify
        /\ libs' = libs /\ libs_error' = libs_error
        /\ allLibsChecked' = allLibsChecked
        /\ check_env' = check_env /\ baseEnv' = baseEnv /\ userEnv' = userEnv
        /\ allTargets' = allTargets
        /\ removedFromDefaultTargets' = removedFromDefaultTargets
        /\ allAlias' = allAlias /\ declared' = declared
        /\ nbuilds' = nbuilds /\ nscripts' = nscripts ]_vars

\* A ScriptTests call without sources raised after a target was registered,
\* while the first external library had not been verified yet.
C22_Witness ==
  /\ "raised" \in DOMAIN last /\ last.op = "ScriptTests"
  /\ phase = "raised"
  /\ Registered(allTargets) # {}
  /\ probes[1] = 0

\* --------------------------------------------------------------- C23
\* The last step was a ScriptTests call that went into its loop.
ScriptCall == last.op = "ScriptTests" /\ "raised" \notin DOMAIN last

\* The names on the '# scons:' line of script i that are not registered.
Unregistered(i) ==
  {d \in Range(last.sources[i].deps) : ~allTargets[d].present}

NamesUnregistered(i) ==
  last.sources[i].line = "deps" /\ Unregistered(i) # {}

\* The scripts the loop came to, the environments made for script i and
\* the Depends edges made for it.
Reached == DOMAIN last.outcomes

EnvsFor(i) == {k \in DOMAIN last.envs : last.envs[k].script = i}

DependsFor(i) == {k \in DOMAIN last.depends : last.depends[k].script = i}

\* C23 (as stated): outside production mode a ScriptTests call on a script
\* whose '# scons:' line names an unregistered target fails with the error
\* that names the unresolved names of that script and lists the registered
\* names, and builds no environment for that script.
C23_UnregisteredNameFails ==
  (ScriptCall /\ mode # "production") =>
    \A i \in DOMAIN last.sources :
      (NamesUnregistered(i) /\ \A j \in 1..(i - 1) : ~NamesUnregistered(j)) =>
        /\ last.error = "ValueError"
        /\ Range(last.err) = Unregistered(i)
        /\ Range(last.allDeps) = Registered(allTargets)
        /\ EnvsFor(i) = {}

\* C23 (amended): outside production mode, with checkDependencies on, when
\* the loop of ScriptTests comes to a script whose '# scons:' line names an
\* unregistered target, the call ends there with ValueError; the error
\* names exactly the unregistered names of that line and lists exactly the
\* registered names in sorted order; no environment and no artifact is
\* made for that script.  With checkDependencies off the line is not read,
\* and an earlier script may have ended the call before.
C23_ReachedUnregisteredNameFails ==
  (ScriptCall /\ mode # "production" /\ last.checkDependencies) =>
    \A i \in Reached :
      NamesUnregistered(i) =>
        /\ last.outcomes[i] = "ValueError" /\ i = Len(last.outcomes)
        /\ last.error = "ValueError"
        /\ Range(last.err) = Unregistered(i)
        /\ Range(last.allDeps) = Registered(allTargets)
        /\ \A k \in 1..(Len(last.allDeps) - 1) : last.allDeps[k] < last.allDeps[k + 1]
        /\ EnvsFor(i) = {} /\ DependsFor(i) = {}
        /\ i \notin Range(last.allDst)

\* In debug mode the second script of a call named a registered and an
\* unregistered target, after the first script got its environment.
C23_Witness ==
  /\ ScriptCall /\ mode = "debug" /\ last.checkDependencies
  /\ Len(last.outcomes) = 2 /\ last.outcomes[1] = "built"
  /\ NamesUnregistered(2)
  /\ Len(last.sources[2].deps) = 2
  /\ Len(last.err) = 1 /\ Len(last.allDeps) = 1
  /\ last.error = "ValueError"

\* --------------------------------------------------------------- C24
\* C24 (as stated): in production mode a script whose '# scons:' line names
\* an unregistered target gets no environment and no artifact, and the
\* scripts after it are gone through.
C24_UnregisteredNameSkipped ==
  (ScriptCall /\ mode = "production") =>
    \A i \in DOMAIN last.sources :
      NamesUnregistered(i) =>
        /\ EnvsFor(i) = {} /\ i \notin Range(last.allDst)
        /\ last.error # "ValueError"
        /\ \A j \in DOMAIN last.sources : j > i => j \in Reached

\* C24 (amended): in production mode, with checkDependencies on, a script
\* the loop comes to whose '# scons:' line names an unregistered target is
\* skipped: no environment, no artifact, no Depends edge and no ValueError,
\* and the loop goes on to the next script of the call.  With
\* checkDependencies off the line is not read and the script is built.
C24_ReachedUnregisteredNameSkipped ==
  (ScriptCall /\ mode = "production" /\ last.checkDependencies) =>
    \A i \in Reached :
      NamesUnregistered(i) =>
        /\ last.outcomes[i] = "skipped"
        /\ EnvsFor(i) = {} /\ DependsFor(i) = {}
        /\ i \notin Range(last.allDst)
        /\ last.error # "ValueError"
        /\ i < Len(last.sources) => (i + 1) \in Reached

\* In production mode the first script was skipped and the second one got
\* its environment and its artifact.
C24_Witness ==
  /\ ScriptCall /\ mode = "production" /\ last.checkDependencies
  /\ Len(last.outcomes) = 2
  /\ NamesUnregistered(1) /\ last.outcomes[1] = "skipped"
  /\ last.outcomes[2] = "built"
  /\ last.allDst = <<2>>
  /\ EnvsFor(2) # {}

\* --------------------------------------------------------------- C25
RegisterOps == {"StaticLibrary", "SharedLibrary", "ObjectLibrary", "Program"}

\* C25: a declaration registers its (artifact, descriptor) pair under
\* publicName when one is given and under the target name otherwise,
\* whether or not the name has a record already; the records of the other
\* names stay as they are, a step that declares nothing leaves the registry
\* alone, and a name that has a record keeps having one.
C25_RegisterInsertsOrOverwrites ==
  [][ /\ \A n \in TargetNames : allTargets[n].present => allTargets'[n].present
      /\ IF nbuilds' = nbuilds + 1 /\ last'.op \in RegisterOps
         THEN /\ \E key \in {IF last'.args.publicName # 0
                             THEN last'.args.publicName ELSE last'.target} :
                   /\ allTargets'[key].present
                   /\ allTargets'[key].node =
                        IF last'.op = "ObjectLibrary" THEN 0 ELSE nbuilds'
                   /\ allTargets'[key].checker =
                        IF last'.op = "Program" THEN 0 ELSE Len(libs')
                   /\ \A n \in TargetNames \ {key} : allTargets'[n] = allTargets[n]
              /\ last'.op # "Program" =>
                   /\ Len(libs') = Len(libs) + 1
                   /\ libs'[Len(libs')].name = last'.target
         ELSE allTargets' = allTargets ]_vars

\* The second declaration, a static library given the publicName under
\* which the first target was registered, took over that record.
C25_Witness ==
  /\ nbuilds = 2 /\ last.op = "StaticLibrary" /\ "raised" \notin DOMAIN last
  /\ last.args.publicName # 0 /\ last.args.publicName # last.target
  /\ Registered(allTargets) = {last.args.publicName}
  /\ allTargets[last.args.publicName].node = 2
  /\ libs[allTargets[last.args.publicName].checker].name = last.target

\* --------------------------------------------------------------- C26
\* C26: in a run with check_libs off no library is probed, in a scratch
\* environment or in a target's own, so no environment built in the run
\* has a name in its missing list, whatever is available on the machine.
C26_NoCheckNoMissing ==
  ~check_libs =>
    /\ \A l \in AllLibs : probes[l] = 0
    /\ check_env = NoEnv
    /\ LastBuilt => last.env.missing = <<>>
    /\ \A t \in TargetNames : declared[t].present => declared[t].missing = <<>>

\* --------------------------------------------------------------- C27
\* C27: a StaticLibrary or SharedLibrary declared without externEnvFlags
\* and without globalEnvFlags exposes no flags to the targets using it,
\* whatever flags the libraries declared before it were given.
C27_NoFlagsGivenNoFlagsExposed ==
  ( /\ last.op \in {"StaticLibrary", "SharedLibrary"}
    /\ "raised" \notin DOMAIN last
    /\ last.args.externEnvFlags = Omitted
    /\ last.args.globalEnvFlags = <<>> )
    => envFlagsOf(libs[Len(libs)], defaultExternEnvFlags) = <<>>

\* --------------------------------------------------------------- C28
\* The names of the libraries in the process-wide failure list.
AggregatedNames == {libs[l].name : l \in Range(libs_error)}

\* The environments the run has built and still holds.
BuiltEnvs ==
  {declared[t] : t \in {u \in TargetNames : declared[u].present}}
    \cup (IF userEnv.present THEN {userEnv} ELSE {})
    \cup (IF LastBuilt THEN {last.env} ELSE {})
    \cup (IF LastBuilt /\ last.op = "UnitTest" THEN {last.execEnv} ELSE {})

\* C28: every name in the missing list of an environment built in the run
\* is the name of a library in libs_error, and the names recorded for a
\* target taken out of the default targets are such names too; so a
\* degraded target exists only when libs_error is not empty.
C28_MissingNamesAreAggregated ==
  /\ \A e \in BuiltEnvs : Range(e.missing) \subseteq AggregatedNames
  /\ \A t \in TargetNames :
       Range(removedFromDefaultTargets[t]) \subseteq AggregatedNames
  /\ (\E t \in TargetNames : removedFromDefaultTargets[t] # <<>>) => libs_error # <<>>

\* A target built from an environment passed as env= is degraded by two
\* libraries: one that failed when that environment was created and one
\* that failed in its own build.
C28_Witness ==
  \E t \in TargetNames :
    /\ Len(removedFromDefaultTargets[t]) = 2
    /\ Len(libs_error) = 2
    /\ userEnv.present /\ Len(userEnv.missing) = 1
    /\ declared[t].missing = removedFromDefaultTargets[t]

\* --------------------------------------------------------------- C29
\* C29: every requested library is in the resolved list with level 0, and
\* a requested object library with additional sources has them in ADDSRC
\* after the postconfigure pass (stated for descriptors that all differ in
\* (name, id)).
C29_RequestedAtLevelZero ==
  (last.op = "resolve" /\ DistinctKeys) =>
    \A r \in Range(last.requested) :
      /\ <<r, 0>> \in Range(last.allLibs)
      /\ libs[r].addSources => libs[r].name \in last.ADDSRC

\* --------------------------------------------------------------- C30
\* C30: a ScriptTests call makes one artifact for each script it neither
\* skipped nor refused, returns the artifacts in the order of the sources,
\* and every Depends edge made for a script ends at that script's own
\* artifact, with procEnvFlags and without.
C30_OneArtifactPerScript ==
  ScriptCall =>
    /\ \A i \in Reached :
         last.outcomes[i] \notin {"skipped", "ValueError"} =>
           /\ last.outcomes[i] = "built"
           /\ Cardinality({k \in DOMAIN last.allDst : last.allDst[k] = i}) = 1
           /\ \A k \in DependsFor(i) : last.depends[k].dst = i
    /\ \A k \in 1..(Len(last.allDst) - 1) : last.allDst[k] < last.allDst[k + 1]

====
